---------------------------- MODULE Spec2Model ----------------------------
(***************************************************************************)
(* A model of the grid-world simulator (src/src/env.py) and of the tabular *)
(* Q-learning agent (src/src/agent.py).                                    *)
(*                                                                         *)
(* Numbers.  Rewards and value estimates are Python floats.  A float is    *)
(* modelled as an integer count of units of 1/One (One = 2^FracBits), kept *)
(* to MantBits significant bits by round-to-nearest-even after every       *)
(* arithmetic operation, as IEEE-754 arithmetic does with 53 bits.         *)
(***************************************************************************)
EXTENDS Integers, Sequences, FiniteSets, TLC

(* ------------------------------ bounds --------------------------------- *)
MaxRows == 2
MaxCols == 3
MaxObstacles == 2
MantBits == 8
FracBits == 1
MaxUpdates == 2
MaxSteps == 2
MaxEpisodes == 1

(* ----------------------- floating-point arithmetic --------------------- *)
RECURSIVE Pow2(_)
Pow2(n) == IF n <= 0 THEN 1 ELSE 2 * Pow2(n - 1)

One == Pow2(FracBits)

\* the float with integer value n
F(n) == n * One

Abs(x) == IF x < 0 THEN -x ELSE x

\* the spacing of representable numbers around the magnitude num/den:
\* the least power of two s with num/den < 2^MantBits * s
RECURSIVE Spacing(_, _, _)
Spacing(num, den, s) ==
    IF num < Pow2(MantBits) * s * den THEN s ELSE Spacing(num, den, 2 * s)

\* num/den (num >= 0, den > 0) rounded to an integer, ties to even
RoundHalfEven(num, den) ==
    LET q == num \div den
        r == num % den
    IN  IF 2 * r < den THEN q
        ELSE IF 2 * r > den THEN q + 1
        ELSE IF q % 2 = 0 THEN q ELSE q + 1

\* the representable number nearest to num/den (den > 0)
FRound(num, den) ==
    LET m == Abs(num)
        s == Spacing(m, den, 1)
        v == s * RoundHalfEven(m, den * s)
    IN  IF num < 0 THEN -v ELSE v

FAdd(x, y) == FRound(x + y, 1)
FSub(x, y) == FRound(x - y, 1)
FMul(x, y) == FRound(x * y, One)
FDiv(x, y) == FRound(x * One, y)

\* a number is representable when rounding leaves it alone
Representable(x) == FRound(x, 1) = x

(* ------------------------------ GridWorld ------------------------------ *)
VARIABLES
    rows, cols, start, goal, num_obstacles, dynamic,  \* GridWorld configuration
    agent_pos, obstacles,                             \* GridWorld mutable state
    epc,                                              \* where the environment's control is
    ret,                                              \* outcome of the last environment call
    actions, alpha, gamma, epsilon,                   \* QLearningAgent parameters
    q,                                                \* QLearningAgent value table
    updated,                                          \* keys that were arguments of update
    nupdates,                                         \* number of update calls made
    aret,                                             \* outcome of the last agent call
    fn, lpc,                                          \* the experiment function running, and where it is
    policy, max_steps, episodes,                      \* its arguments
    ep, it,                                           \* episodes begun, steps begun in this episode
    loop_step,                                        \* train_q_learning's local step, None while unbound
    cur_state, cur_action,                            \* its locals state and action
    total_reward, steps, success,                     \* its locals of the current episode
    results, success_count,                           \* per-episode records, train's success_count
    hist,                                             \* the step calls of the current episode
    lret                                              \* what the function returned or raised

envvars == <<rows, cols, start, goal, num_obstacles, dynamic, agent_pos, obstacles, epc, ret>>
agentvars == <<actions, alpha, gamma, epsilon, q, updated, nupdates, aret>>
loopvars == <<fn, lpc, policy, max_steps, episodes, ep, it, loop_step, cur_state, cur_action,
              total_reward, steps, success, results, success_count, hist, lret>>
vars == <<envvars, agentvars, loopvars>>

\* GridWorld.ACTIONS (a reserved word here): action id -> (row delta, col delta)
ACTION_DELTAS == (0 :> <<-1, 0>>) @@ (1 :> <<1, 0>>) @@ (2 :> <<0, -1>>) @@ (3 :> <<0, 1>>)

HitWallReward == -5
HitObstacleReward == -10
GoalReward == 100
MoveReward == -1

NoCell == <<-9, -9>>
NoRet == [op |-> "none", action |-> -9, next_state |-> NoCell, reward |-> 0,
          done |-> FALSE, event |-> "none", err |-> "none"]

\* mutant: the bounds test lets the row index reach rows
_in_bounds_row_off_by_one(pos) == 0 <= pos[1] /\ pos[1] <= rows /\ 0 <= pos[2] /\ pos[2] < cols

_in_bounds(pos) == 0 <= pos[1] /\ pos[1] < rows /\ 0 <= pos[2] /\ pos[2] < cols

\* mutant: the membership test looks up (col, row)
_is_blocked_transposed(pos) == <<pos[2], pos[1]>> \in obstacles

_is_blocked(pos) == pos \in obstacles

Proposed(pos, a) == <<pos[1] + ACTION_DELTAS[a][1], pos[2] + ACTION_DELTAS[a][2]>>


Cells == (0 .. rows - 1) \X (0 .. cols - 1)

\* the actions a caller may pass to step: the four defined ones and two others
ActionInputs == -1 .. 4

\* GridWorld.__init__: any grid up to MaxRows x MaxCols, the start in its first
\* corner (as the experiment places it) and the goal on any cell
InitEnv ==
    /\ rows \in 1 .. MaxRows
    /\ cols \in 1 .. MaxCols
    /\ start = <<0, 0>>
    /\ goal \in Cells
    /\ num_obstacles \in 0 .. MaxObstacles
    /\ dynamic \in BOOLEAN
    /\ agent_pos = start
    /\ obstacles = {}
    /\ epc = "idle"
    /\ ret = NoRet

\* mutant: the loop asks for one cell more than num_obstacles
GenerateLoopDone_one_more(obst) == Cardinality(obst) > num_obstacles

\* _generate_obstacles, line 128: the loop runs while this is false
GenerateLoopDone(obst) == ~(Cardinality(obst) < num_obstacles)

\* mutant: a drawn cell is kept even when it is the start
ObstaclesAfterDraw_start_not_excluded(obst, pos) ==
    IF pos # goal THEN obst \cup {pos} ELSE obst

\* mutant: only the start cell is kept free
ObstaclesAfterDraw_goal_not_excluded(obst, pos) ==
    IF pos # start THEN obst \cup {pos} ELSE obst

\* _generate_obstacles, lines 131-135: one drawn cell, added unless start or goal
ObstaclesAfterDraw(obst, pos) ==
    IF pos # start /\ pos # goal THEN obst \cup {pos} ELSE obst

\* reset, line 59: return self.agent_pos
ResetReturn(pos) == [NoRet EXCEPT !.op = "reset", !.next_state = pos]

\* mutant: reset regenerates the obstacles of every environment
ResetRegenerates_always == TRUE

\* reset, line 56: if self.dynamic
ResetRegenerates == dynamic

\* reset(): to the start cell; a dynamic environment regenerates its obstacles
reset ==
    /\ epc = "idle"
    /\ agent_pos' = start
    /\ IF ResetRegenerates
       THEN /\ obstacles' = {}
            /\ IF GenerateLoopDone({})
               THEN epc' = "idle" /\ ret' = ResetReturn(agent_pos')
               ELSE epc' = "gen_reset" /\ ret' = [NoRet EXCEPT !.op = "reset_running"]
       ELSE /\ obstacles' = obstacles
            /\ epc' = "idle"
            /\ ret' = ResetReturn(agent_pos')
    /\ UNCHANGED <<rows, cols, start, goal, num_obstacles, dynamic>>
    /\ UNCHANGED agentvars

\* _generate_obstacles() called on a newly constructed environment, as the
\* experiment does for its static layouts
generate_obstacles_call ==
    /\ epc = "idle"
    /\ ret = NoRet
    /\ obstacles' = {}
    /\ IF GenerateLoopDone({})
       THEN epc' = "idle" /\ ret' = [NoRet EXCEPT !.op = "generate"]
       ELSE epc' = "gen_direct" /\ ret' = [NoRet EXCEPT !.op = "generate_running"]
    /\ UNCHANGED <<rows, cols, start, goal, num_obstacles, dynamic, agent_pos>>
    /\ UNCHANGED agentvars

\* one iteration of the sampling loop of _generate_obstacles
generate_obstacles_draw(pos) ==
    /\ epc \in {"gen_reset", "gen_direct"}
    /\ pos \in Cells
    /\ obstacles' = ObstaclesAfterDraw(obstacles, pos)
    /\ IF GenerateLoopDone(obstacles')
       THEN /\ epc' = "idle"
            /\ ret' = IF epc = "gen_reset" THEN ResetReturn(agent_pos)
                      ELSE [NoRet EXCEPT !.op = "generate"]
       ELSE UNCHANGED <<epc, ret>>
    /\ UNCHANGED <<rows, cols, start, goal, num_obstacles, dynamic, agent_pos>>
    /\ UNCHANGED agentvars

\* every cell a grid of the largest size has
AllCells == (0 .. MaxRows - 1) \X (0 .. MaxCols - 1)

\* one turn of the loop, whichever cell random.randint draws
generate_obstacles_iter == \E pos \in AllCells : generate_obstacles_draw(pos)

\* mutant: the goal test is made on the cell the agent leaves
MoveOutcome_goal_tested_before_move(pos, proposed) ==
    IF pos = goal
    THEN [pos |-> proposed, reward |-> F(GoalReward), done |-> TRUE, event |-> "reached_goal"]
    ELSE [pos |-> proposed, reward |-> F(MoveReward), done |-> FALSE, event |-> "moved"]

\* step, lines 92-106: a valid move from pos to proposed
MoveOutcome(pos, proposed) ==
    IF proposed = goal
    THEN [pos |-> proposed, reward |-> F(GoalReward), done |-> TRUE, event |-> "reached_goal"]
    ELSE [pos |-> proposed, reward |-> F(MoveReward), done |-> FALSE, event |-> "moved"]

\* step, lines 74-106: the new position and the returned transition
StepOutcome(pos, a) ==
    LET proposed == Proposed(pos, a)
    IN  IF ~_in_bounds(proposed)
        THEN [pos |-> pos, reward |-> F(HitWallReward), done |-> FALSE, event |-> "hit_wall"]
        ELSE IF _is_blocked(proposed)
        THEN [pos |-> pos, reward |-> F(HitObstacleReward), done |-> FALSE,
              event |-> "hit_obstacle"]
        ELSE MoveOutcome(pos, proposed)

\* step, line 71: the actions that are rejected
StepRejects(a) == a \notin DOMAIN ACTION_DELTAS

\* mutant: an unknown action is answered like a move into a wall
InvalidActionReturn_as_wall(pos, a) ==
    [op |-> "step", action |-> a, next_state |-> pos, reward |-> F(HitWallReward),
     done |-> FALSE, event |-> "hit_wall", err |-> "none"]

\* step, line 72: raise ValueError("Invalid action. ..."), nothing is returned
InvalidActionReturn(pos, a) ==
    [NoRet EXCEPT !.op = "step", !.action = a, !.err = "ValueError: Invalid action"]

\* step(action)
step(a) ==
    /\ epc = "idle"
    /\ IF StepRejects(a)
       THEN /\ ret' = InvalidActionReturn(agent_pos, a)
            /\ UNCHANGED agent_pos
       ELSE LET o == StepOutcome(agent_pos, a)
            IN  /\ agent_pos' = o.pos
                /\ ret' = [op |-> "step", action |-> a, next_state |-> o.pos,
                           reward |-> o.reward, done |-> o.done, event |-> o.event,
                           err |-> "none"]
    /\ UNCHANGED <<rows, cols, start, goal, num_obstacles, dynamic, obstacles, epc>>
    /\ UNCHANGED agentvars

\* greedy_action_towards_goal, lines 151-155: the actions that reduce the distance,
\* in the order up, down, left, right; all four when there is none
GreedyCandidates(pos) ==
    LET up    == IF goal[1] < pos[1] THEN <<0>> ELSE <<>>
        down  == IF goal[1] > pos[1] THEN <<1>> ELSE <<>>
        left  == IF goal[2] < pos[2] THEN <<2>> ELSE <<>>
        right == IF goal[2] > pos[2] THEN <<3>> ELSE <<>>
        candidates == up \o down \o left \o right
    IN  IF candidates = <<>> THEN <<0, 1, 2, 3>> ELSE candidates

\* mutant: a candidate is accepted as soon as its cell is in the grid
CandidateFree_in_bounds_only(pos, a) == _in_bounds(Proposed(pos, a))

\* line 164: the candidate's cell is in the grid and holds no obstacle
CandidateFree(pos, a) == _in_bounds(Proposed(pos, a)) /\ ~_is_blocked(Proposed(pos, a))

\* lines 160-165: the first candidate from index i on whose cell is free, None if none
RECURSIVE FirstFree(_, _, _)
FirstFree(candidates, pos, i) ==
    IF i > Len(candidates) THEN -9
    ELSE IF CandidateFree(pos, candidates[i]) THEN candidates[i]
    ELSE FirstFree(candidates, pos, i + 1)

\* the actions the call may return: the first free candidate, or whatever
\* random.choice([0, 1, 2, 3]) draws when no candidate is free (line 167)
GreedyChoices(pos) ==
    LET a == FirstFree(GreedyCandidates(pos), pos, 1)
    IN  IF a # -9 THEN {a} ELSE {0, 1, 2, 3}

\* greedy_action_towards_goal()
greedy_action_towards_goal ==
    /\ epc = "idle"
    /\ \E a \in GreedyChoices(agent_pos) :
          ret' = [NoRet EXCEPT !.op = "greedy", !.action = a]
    /\ UNCHANGED <<rows, cols, start, goal, num_obstacles, dynamic, agent_pos, obstacles, epc>>
    /\ UNCHANGED agentvars


(* ---------------------------- QLearningAgent --------------------------- *)
Half == One \div 2

\* best_a = None (agent.py line 24)
None == -9

\* the action lists an agent is constructed with: the environment's ids in
\* dictionary order (as train_q_learning passes them), and a list in another order
ActionLists == {<<0, 1, 2, 3>>, <<1, 0>>}

\* the states the agent is asked about
AgentStates == {<<0, 0>>, <<0, 1>>}

\* a reward whose distance to the goal reward takes MantBits + 1 bits to write
OddReward == F(GoalReward) - 1 - Pow2(MantBits)

\* the rewards update is called with: two of the environment's, and OddReward
UpdateRewards == {F(MoveReward), F(GoalReward), OddReward}

\* the values random.random() can return: the representable numbers in [0, 1)
Draws == 0 .. One - 1

EmptyTable == [k \in {} |-> 0]

\* what is recorded of an agent call: its arguments (state, action, next_state),
\* its result or reward (value), the estimate update read first (old), and
\* whether a choose_action call directly follows epsilon being forced from a
\* non-zero value to zero
NoARet == [op |-> "none", state |-> NoCell, action |-> None, value |-> 0,
           next_state |-> NoCell, old |-> 0, eps_just_zeroed |-> FALSE]

\* QLearningAgent.__init__
InitAgent ==
    /\ actions \in ActionLists
    /\ alpha \in {Half, One}
    /\ gamma \in {0, One}
    /\ epsilon \in {0, Half}
    /\ q = EmptyTable
    /\ updated = {}
    /\ nupdates = 0
    /\ aret = NoARet

\* get_q: the value self.q.get((state, action), 0.0) returns
get_q(tbl, state, action) ==
    IF <<state, action>> \in DOMAIN tbl THEN tbl[<<state, action>>] ELSE 0

\* mutant: the read stores the default it returns, as setdefault would
get_q_table_inserting(tbl, state, action) ==
    [k \in DOMAIN tbl \cup {<<state, action>>} |-> get_q(tbl, state, action)]

\* get_q: the table after self.q.get(...), which never inserts
get_q_table(tbl, state, action) == tbl

\* mutant: a later action with an equal value replaces the best one
Better_or_equal(q_val, best_q, seen) == ~seen \/ q_val >= best_q

\* best_action, line 29: q_val > best_q, where best_q starts at -inf (seen false)
Better(q_val, best_q, seen) == ~seen \/ q_val > best_q

\* best_action, lines 27-31: the loop from the i-th action on; seen is false
\* while best_q is still -inf
RECURSIVE BestLoop(_, _, _, _, _, _)
BestLoop(tbl, state, i, best_a, best_q, seen) ==
    IF i > Len(actions)
    THEN [a |-> best_a, tbl |-> tbl]
    ELSE LET a == actions[i]
             q_val == get_q(tbl, state, a)
             t == get_q_table(tbl, state, a)
         IN  IF Better(q_val, best_q, seen)
             THEN BestLoop(t, state, i + 1, a, q_val, TRUE)
             ELSE BestLoop(t, state, i + 1, best_a, best_q, seen)

\* best_action(state): the action returned and the table afterwards
best_action(tbl, state) == BestLoop(tbl, state, 1, None, 0, FALSE)

\* mutant: the draw is compared with <=
Explores_on_equal(draw) == draw <= epsilon

\* choose_action, line 41: the exploration test
Explores(draw) == draw < epsilon

\* update, line 53: max over the action list of get_q(next_state, a), from the
\* i-th action on, with the table threaded through the reads
RECURSIVE MaxLoop(_, _, _, _, _)
MaxLoop(tbl, next_state, i, best, seen) ==
    IF i > Len(actions)
    THEN [v |-> best, tbl |-> tbl]
    ELSE LET v == get_q(tbl, next_state, actions[i])
             t == get_q_table(tbl, next_state, actions[i])
         IN  IF ~seen \/ v > best
             THEN MaxLoop(t, next_state, i + 1, v, TRUE)
             ELSE MaxLoop(t, next_state, i + 1, best, seen)

\* mutant: the old estimate is not subtracted from the target
NewQ_old_not_subtracted(old_q, reward, next_best_q) ==
    LET target == FAdd(reward, FMul(gamma, next_best_q))
    IN  FAdd(old_q, FMul(alpha, target))

\* update, lines 56-59: the new estimate from the old one and the best next one
NewQ(old_q, reward, next_best_q) ==
    LET target == FAdd(reward, FMul(gamma, next_best_q))
    IN  FAdd(old_q, FMul(alpha, FSub(target, old_q)))

\* mutant: the pair is written before the best next value is read
TableAfterUpdate_written_before_read(tbl, state, action, reward, next_state) ==
    LET old_q == get_q(tbl, state, action)
        key == <<state, action>>
        early == [k \in DOMAIN tbl \cup {key} |-> IF k = key THEN reward ELSE tbl[k]]
        m == MaxLoop(early, next_state, 1, 0, FALSE)
        new_q == NewQ(old_q, reward, m.v)
    IN  [k \in DOMAIN early |-> IF k = key THEN new_q ELSE early[k]]

\* update(state, action, reward, next_state): the table afterwards
TableAfterUpdate(tbl, state, action, reward, next_state) ==
    LET old_q == get_q(tbl, state, action)
        t1 == get_q_table(tbl, state, action)
        m == MaxLoop(t1, next_state, 1, 0, FALSE)
        new_q == NewQ(old_q, reward, m.v)
        key == <<state, action>>
    IN  [k \in DOMAIN m.tbl \cup {key} |-> IF k = key THEN new_q ELSE m.tbl[k]]

ActionSet == {actions[i] : i \in 1 .. Len(actions)}

\* the actions update is called with
UpdateActions == ActionSet \cap {0, 1}

\* a call of get_q(state, action) from outside
GetQ ==
    /\ \E state \in AgentStates, action \in ActionSet :
          /\ aret' = [NoARet EXCEPT !.op = "get_q", !.state = state, !.action = action,
                                    !.value = get_q(q, state, action)]
          /\ q' = get_q_table(q, state, action)
    /\ UNCHANGED <<actions, alpha, gamma, epsilon, updated, nupdates>>
    /\ UNCHANGED envvars

\* best_action(state)
best_action_call(state) ==
    /\ LET b == best_action(q, state)
       IN  /\ aret' = [NoARet EXCEPT !.op = "best_action", !.state = state,
                                     !.value = b.a]
           /\ q' = b.tbl
    /\ UNCHANGED <<actions, alpha, gamma, epsilon, updated, nupdates>>
    /\ UNCHANGED envvars

\* a call of best_action(state) from outside
BestAction == \E state \in AgentStates : best_action_call(state)

JustZeroed == aret.op = "set_epsilon" /\ aret.value # 0

\* choose_action(state): draw is what random.random() returns
choose_action_call(state) ==
    /\ \E draw \in Draws :
          IF Explores(draw)
          THEN /\ \E a \in ActionSet :
                     aret' = [NoARet EXCEPT !.op = "choose_action", !.state = state,
                                            !.value = a,
                                            !.eps_just_zeroed = JustZeroed]
               /\ q' = q
          ELSE LET b == best_action(q, state)
               IN  /\ aret' = [NoARet EXCEPT !.op = "choose_action", !.state = state,
                                             !.value = b.a,
                                             !.eps_just_zeroed = JustZeroed]
                   /\ q' = b.tbl
    /\ UNCHANGED <<actions, alpha, gamma, epsilon, updated, nupdates>>
    /\ UNCHANGED envvars

\* a call of choose_action(state) from outside
ChooseAction == \E state \in AgentStates : choose_action_call(state)

\* agent.epsilon = 0.0, as evaluate_agent sets it
SetEpsilonZero ==
    /\ epsilon' = 0
    /\ aret' = [NoARet EXCEPT !.op = "set_epsilon", !.value = epsilon]
    /\ UNCHANGED <<actions, alpha, gamma, q, updated, nupdates>>
    /\ UNCHANGED envvars

\* update(state, action, reward, next_state)
update_call(state, action, reward, next_state) ==
    /\ q' = TableAfterUpdate(q, state, action, reward, next_state)
    /\ updated' = updated \cup {<<state, action>>}
    /\ aret' = [NoARet EXCEPT !.op = "update", !.state = state, !.action = action,
                              !.value = reward, !.next_state = next_state,
                              !.old = get_q(q, state, action)]
    /\ nupdates' = nupdates + 1
    /\ UNCHANGED <<actions, alpha, gamma, epsilon>>
    /\ UNCHANGED envvars

\* a call of update(state, action, reward, next_state) from outside
Update ==
    /\ nupdates < MaxUpdates
    /\ \E state \in AgentStates, action \in UpdateActions, reward \in UpdateRewards,
          next_state \in AgentStates :
          update_call(state, action, reward, next_state)

(* ------------------------------ experiment ---------------------------- *)
NoLRet == [op |-> "none", err |-> "none", steps |-> 0, total_reward |-> 0, success |-> FALSE,
           value |-> <<>>]

\* the sampling loop of a reset that one of the functions below has called;
\* state = env.reset() is assigned when reset returns
reset_generating ==
    /\ fn # "none" /\ lpc \in {"loop", "choose"}
    /\ generate_obstacles_iter
    /\ cur_state' = IF epc' = "idle" THEN ret'.next_state ELSE cur_state
    /\ UNCHANGED <<fn, lpc, policy, max_steps, episodes, ep, it, loop_step, cur_action,
                   total_reward, steps, success, results, success_count, hist, lret>>

\* run_episode, lines 48-51
run_episode_reset ==
    /\ fn = "run_episode" /\ lpc = "reset"
    /\ reset
    /\ cur_state' = IF epc' = "idle" THEN ret'.next_state ELSE cur_state
    /\ total_reward' = 0 /\ steps' = 0 /\ success' = FALSE
    /\ it' = 0 /\ hist' = <<>>
    /\ lpc' = "loop"
    /\ UNCHANGED <<fn, policy, max_steps, episodes, ep, loop_step, cur_action, results,
                   success_count, lret>>

\* lines 54-57: the actions the policy may pick
PolicyChoices == IF policy = "greedy" THEN GreedyChoices(agent_pos) ELSE {0, 1, 2, 3}

\* mutant: the loop runs once more than max_steps
EpisodeLoopRuns_once_more == it <= max_steps

\* line 53: for _ in range(max_steps)
EpisodeLoopRuns == it < max_steps

\* mutant: the reward replaces the running total
EpisodeTotal_overwritten(total, reward) == reward

\* line 61: total_reward += reward
EpisodeTotal(total, reward) == FAdd(total, reward)

\* run_episode, lines 53-66: one turn of the loop
run_episode_step ==
    /\ fn = "run_episode" /\ lpc = "loop" /\ epc = "idle"
    /\ EpisodeLoopRuns
    /\ \E a \in PolicyChoices : step(a) /\ cur_action' = a
    /\ cur_state' = ret'.next_state
    /\ total_reward' = EpisodeTotal(total_reward, ret'.reward)
    /\ steps' = steps + 1
    /\ it' = it + 1
    /\ hist' = Append(hist, [action |-> cur_action', reward |-> ret'.reward, done |-> ret'.done])
    /\ IF ret'.done
       THEN success' = TRUE /\ lpc' = "break"
       ELSE UNCHANGED <<success, lpc>>
    /\ UNCHANGED <<fn, policy, max_steps, episodes, ep, loop_step, results, success_count, lret>>

\* run_episode, lines 68-72
run_episode_return ==
    /\ fn = "run_episode" /\ epc = "idle"
    /\ lpc = "break" \/ (lpc = "loop" /\ ~EpisodeLoopRuns)
    /\ lret' = [op |-> "run_episode", err |-> "none", steps |-> steps,
                total_reward |-> total_reward, success |-> success]
    /\ lpc' = "done"
    /\ UNCHANGED <<fn, policy, max_steps, episodes, ep, it, loop_step, cur_state, cur_action,
                   total_reward, steps, success, results, success_count, hist>>
    /\ UNCHANGED <<envvars, agentvars>>

\* train_q_learning, lines 100-102: the next episode begins
train_begin_episode ==
    /\ fn = "train" /\ lpc = "reset" /\ ep < episodes
    /\ reset
    /\ cur_state' = IF epc' = "idle" THEN ret'.next_state ELSE cur_state
    /\ total_reward' = 0
    /\ ep' = ep + 1 /\ it' = 0 /\ hist' = <<>>
    /\ lpc' = "choose"
    /\ UNCHANGED <<fn, policy, max_steps, episodes, loop_step, cur_action, steps, success,
                   results, success_count, lret>>

\* lines 104-105: step is bound to the next index, the agent chooses
train_choose ==
    /\ fn = "train" /\ lpc = "choose" /\ epc = "idle"
    /\ it < max_steps
    /\ choose_action_call(cur_state)
    /\ cur_action' = aret'.value
    /\ loop_step' = it /\ it' = it + 1
    /\ lpc' = "step"
    /\ UNCHANGED <<fn, policy, max_steps, episodes, ep, cur_state, total_reward, steps,
                   success, results, success_count, hist, lret>>

\* line 106: next_state, reward, done, info = env.step(action)
train_step ==
    /\ fn = "train" /\ lpc = "step"
    /\ step(cur_action)
    /\ hist' = Append(hist, [action |-> cur_action, reward |-> ret'.reward, done |-> ret'.done])
    /\ lpc' = "update"
    /\ UNCHANGED <<fn, policy, max_steps, episodes, ep, it, loop_step, cur_state, cur_action,
                   total_reward, steps, success, results, success_count, lret>>

\* mutant: the state is advanced before update is called
UpdateFrom_next_state == ret.next_state

\* line 108: the first argument of update is the local state
UpdateFrom == cur_state

\* lines 108-115: the agent learns, then the locals advance
train_update ==
    /\ fn = "train" /\ lpc = "update"
    /\ update_call(UpdateFrom, cur_action, ret.reward, ret.next_state)
    /\ cur_state' = ret.next_state
    /\ total_reward' = FAdd(total_reward, ret.reward)
    /\ IF ret.done
       THEN success_count' = success_count + 1 /\ lpc' = "end_episode"
       ELSE success_count' = success_count /\ lpc' = "choose"
    /\ UNCHANGED <<fn, policy, max_steps, episodes, ep, it, loop_step, cur_action, steps,
                   success, results, hist, lret>>

\* lines 117-118: the episode is recorded; step + 1 reads the loop variable,
\* which nothing has bound when the inner loop never ran
train_end_episode ==
    /\ fn = "train" /\ epc = "idle"
    /\ lpc = "end_episode" \/ (lpc = "choose" /\ ~(it < max_steps))
    /\ IF loop_step = None
       THEN /\ lret' = [NoLRet EXCEPT !.op = "train", !.err = "UnboundLocalError"]
            /\ lpc' = "done"
            /\ UNCHANGED results
       ELSE /\ results' = Append(results, [steps |-> loop_step + 1,
                                           total_reward |-> total_reward,
                                           success |-> hist # <<>> /\ hist[Len(hist)].done,
                                           calls |-> Len(hist)])
            /\ lpc' = "reset"
            /\ UNCHANGED lret
    /\ UNCHANGED <<fn, policy, max_steps, episodes, ep, it, loop_step, cur_state, cur_action,
                   total_reward, steps, success, success_count, hist>>
    /\ UNCHANGED <<envvars, agentvars>>

\* line 120: return ..., success_count / episodes
train_return ==
    /\ fn = "train" /\ lpc = "reset" /\ ~(ep < episodes)
    /\ IF episodes = 0
       THEN /\ lret' = [NoLRet EXCEPT !.op = "train", !.err = "ZeroDivisionError"]
            /\ lpc' = "done"
       ELSE /\ lret' = [NoLRet EXCEPT !.op = "train", !.steps = Len(results),
                                      !.value = <<FDiv(F(success_count), F(episodes))>>]
            /\ lpc' = "returned"
    /\ UNCHANGED <<fn, policy, max_steps, episodes, ep, it, loop_step, cur_state, cur_action,
                   total_reward, steps, success, results, success_count, hist>>
    /\ UNCHANGED <<envvars, agentvars>>

\* evaluate_agent(env, agent, episodes, max_steps) on the agent train_q_learning
\* returned, lines 126-130
evaluate_agent_call ==
    /\ fn = "train" /\ lpc = "returned"
    /\ fn' = "evaluate"
    /\ episodes' \in 0 .. MaxEpisodes
    /\ max_steps' = max_steps
    /\ SetEpsilonZero
    /\ results' = <<>> /\ ep' = 0 /\ it' = 0 /\ hist' = <<>>
    /\ lpc' = "reset"
    /\ lret' = NoLRet
    /\ UNCHANGED <<policy, loop_step, cur_state, cur_action, total_reward, steps, success,
                   success_count>>

\* evaluate_agent, lines 131-135: the next episode begins
evaluate_begin_episode ==
    /\ fn = "evaluate" /\ lpc = "reset" /\ ep < episodes
    /\ reset
    /\ cur_state' = IF epc' = "idle" THEN ret'.next_state ELSE cur_state
    /\ total_reward' = 0 /\ steps' = 0 /\ success' = FALSE
    /\ ep' = ep + 1 /\ it' = 0 /\ hist' = <<>>
    /\ lpc' = "choose"
    /\ UNCHANGED <<fn, policy, max_steps, episodes, loop_step, cur_action, results,
                   success_count, lret>>

\* mutant: the evaluation applies the first action of the list
EvaluationPick_first_listed(state) ==
    /\ aret' = [NoARet EXCEPT !.op = "best_action", !.state = state, !.value = actions[1]]
    /\ UNCHANGED <<actions, alpha, gamma, epsilon, q, updated, nupdates>>
    /\ UNCHANGED envvars

\* line 138: action = agent.best_action(state)
EvaluationPick(state) == best_action_call(state)

evaluate_choose ==
    /\ fn = "evaluate" /\ lpc = "choose" /\ epc = "idle"
    /\ it < max_steps
    /\ EvaluationPick(cur_state)
    /\ cur_action' = aret'.value
    /\ it' = it + 1
    /\ lpc' = "step"
    /\ UNCHANGED <<fn, policy, max_steps, episodes, ep, loop_step, cur_state, total_reward,
                   steps, success, results, success_count, hist, lret>>

\* lines 139-147
evaluate_step ==
    /\ fn = "evaluate" /\ lpc = "step"
    /\ step(cur_action)
    /\ cur_state' = ret'.next_state
    /\ total_reward' = FAdd(total_reward, ret'.reward)
    /\ steps' = steps + 1
    /\ hist' = Append(hist, [action |-> cur_action, reward |-> ret'.reward, done |-> ret'.done])
    /\ IF ret'.done
       THEN success' = TRUE /\ lpc' = "end_episode"
       ELSE success' = success /\ lpc' = "choose"
    /\ UNCHANGED <<fn, policy, max_steps, episodes, ep, it, loop_step, cur_action, results,
                   success_count, lret>>

\* line 149
evaluate_end_episode ==
    /\ fn = "evaluate" /\ epc = "idle"
    /\ lpc = "end_episode" \/ (lpc = "choose" /\ ~(it < max_steps))
    /\ results' = Append(results, [steps |-> steps, total_reward |-> total_reward,
                                   success |-> success, calls |-> Len(hist)])
    /\ lpc' = "reset"
    /\ UNCHANGED <<fn, policy, max_steps, episodes, ep, it, loop_step, cur_state, cur_action,
                   total_reward, steps, success, success_count, hist, lret>>
    /\ UNCHANGED <<envvars, agentvars>>

\* sum(r[...] for r in results) over the first n records: the successes counted,
\* the steps added, the rewards added as floats
RECURSIVE SumOf(_, _)
SumOf(rs, n) ==
    IF n = 0 THEN [success |-> 0, steps |-> 0, total_reward |-> 0]
    ELSE LET p == SumOf(rs, n - 1)
         IN  [success |-> p.success + (IF rs[n].success THEN 1 ELSE 0),
              steps |-> p.steps + rs[n].steps,
              total_reward |-> FAdd(p.total_reward, rs[n].total_reward)]

\* summarize(results), lines 84-88: each mean divides by len(results)
summarize(rs) ==
    IF Len(rs) = 0
    THEN [NoLRet EXCEPT !.op = "evaluate", !.err = "ZeroDivisionError"]
    ELSE LET t == SumOf(rs, Len(rs))
         IN  [NoLRet EXCEPT !.op = "evaluate",
                            !.value = <<FDiv(F(t.success), F(Len(rs))),
                                        FDiv(F(t.steps), F(Len(rs))),
                                        FDiv(t.total_reward, F(Len(rs)))>>]

\* line 151: return summarize(results)
evaluate_return ==
    /\ fn = "evaluate" /\ lpc = "reset" /\ ~(ep < episodes)
    /\ lret' = summarize(results)
    /\ lpc' = "done"
    /\ UNCHANGED <<fn, policy, max_steps, episodes, ep, it, loop_step, cur_state, cur_action,
                   total_reward, steps, success, results, success_count, hist>>
    /\ UNCHANGED <<envvars, agentvars>>


(* ---------------------------- specifications --------------------------- *)
\* no function of experiment.py is running
NoLoop ==
    /\ fn = "none" /\ lpc = "none" /\ policy = "none" /\ max_steps = 0 /\ episodes = 0
    /\ ep = 0 /\ it = 0 /\ loop_step = None /\ cur_state = NoCell /\ cur_action = None
    /\ total_reward = 0 /\ steps = 0 /\ success = FALSE
    /\ results = <<>> /\ success_count = 0 /\ hist = <<>> /\ lret = NoLRet

\* an agent that is never called
NoAgent ==
    /\ actions = <<0, 1, 2, 3>> /\ alpha = One /\ gamma = One /\ epsilon = 0
    /\ q = EmptyTable /\ updated = {} /\ nupdates = 0 /\ aret = NoARet

\* the environment alone, with an agent that is never called
EnvInit ==
    /\ InitEnv
    /\ NoAgent
    /\ NoLoop

EnvNext ==
    \/ reset /\ UNCHANGED loopvars
    \/ generate_obstacles_call /\ UNCHANGED loopvars
    \/ generate_obstacles_iter /\ UNCHANGED loopvars
    \/ \E a \in ActionInputs : step(a) /\ UNCHANGED loopvars

SpecEnv == EnvInit /\ [][EnvNext]_vars

\* the environment with its baseline policy queried between the calls
GreedyNext ==
    \/ EnvNext
    \/ greedy_action_towards_goal /\ UNCHANGED loopvars

SpecGreedy == EnvInit /\ [][GreedyNext]_vars

\* the environment constructed, its obstacles laid out by reset or by a direct
\* call, and nothing else
GenerateNext ==
    \/ reset /\ UNCHANGED loopvars
    \/ generate_obstacles_call /\ UNCHANGED loopvars
    \/ generate_obstacles_iter /\ UNCHANGED loopvars

\* random.randint draws every cell again and again
SpecGenerate ==
    /\ EnvInit /\ [][GenerateNext]_vars
    /\ \A pos \in AllCells : WF_vars(generate_obstacles_draw(pos) /\ UNCHANGED loopvars)

\* the agent alone, with an environment that is never called
AgentInit ==
    /\ InitAgent
    /\ rows = 1 /\ cols = 1 /\ start = <<0, 0>> /\ goal = <<0, 0>>
    /\ num_obstacles = 0 /\ dynamic = FALSE
    /\ agent_pos = <<0, 0>> /\ obstacles = {} /\ epc = "idle" /\ ret = NoRet
    /\ NoLoop

AgentNext ==
    \/ GetQ /\ UNCHANGED loopvars
    \/ BestAction /\ UNCHANGED loopvars
    \/ ChooseAction /\ UNCHANGED loopvars
    \/ SetEpsilonZero /\ UNCHANGED loopvars
    \/ Update /\ UNCHANGED loopvars

SpecAgent == AgentInit /\ [][AgentNext]_vars

\* the locals of a function of experiment.py that has just been entered
LoopEntry ==
    /\ lpc = "reset" /\ ep = 0 /\ it = 0 /\ loop_step = None
    /\ cur_state = NoCell /\ cur_action = None
    /\ total_reward = 0 /\ steps = 0 /\ success = FALSE
    /\ results = <<>> /\ success_count = 0 /\ hist = <<>> /\ lret = NoLRet

\* run_episode(env, policy, max_steps) on a newly constructed environment
EpisodeInit ==
    /\ InitEnv
    /\ NoAgent
    /\ fn = "run_episode" /\ policy \in {"greedy", "random"}
    /\ max_steps \in 0 .. MaxSteps /\ episodes = 0
    /\ LoopEntry

EpisodeNext ==
    \/ run_episode_reset
    \/ reset_generating
    \/ run_episode_step
    \/ run_episode_return

SpecEpisode == EpisodeInit /\ [][EpisodeNext]_vars

\* the sampling of cells is fair: a cell that could be added is drawn in the end
FairSampling == \A pos \in AllCells : WF_vars(reset_generating /\ generate_obstacles_draw(pos))

SpecEpisodeFair ==
    /\ SpecEpisode
    /\ WF_vars(run_episode_reset) /\ WF_vars(run_episode_step) /\ WF_vars(run_episode_return)
    /\ FairSampling

\* train_q_learning(env, episodes, max_steps, alpha, gamma, epsilon) on a newly
\* constructed environment two cells wide, with the goal in the last corner as
\* the script places it, without obstacles or with one that every reset moves;
\* then evaluate_agent on what it returned
TrainInit ==
    /\ rows \in 1 .. MaxRows /\ cols = 2
    /\ start = <<0, 0>> /\ goal = <<rows - 1, cols - 1>>
    /\ \/ num_obstacles = 0 /\ dynamic = FALSE
       \/ num_obstacles = 1 /\ dynamic = TRUE
    /\ agent_pos = start /\ obstacles = {} /\ epc = "idle" /\ ret = NoRet
    /\ actions = <<0, 1, 2, 3>>
    /\ alpha \in {Half, One} /\ gamma = One /\ epsilon \in {0, Half}
    /\ q = EmptyTable /\ updated = {} /\ nupdates = 0 /\ aret = NoARet
    /\ fn = "train" /\ policy = "none"
    /\ episodes \in 0 .. MaxEpisodes /\ max_steps \in 0 .. MaxSteps
    /\ LoopEntry

TrainNext ==
    \/ train_begin_episode
    \/ reset_generating
    \/ train_choose
    \/ train_step
    \/ train_update
    \/ train_end_episode
    \/ train_return
    \/ evaluate_agent_call
    \/ evaluate_begin_episode
    \/ evaluate_choose
    \/ evaluate_step
    \/ evaluate_end_episode
    \/ evaluate_return

SpecTrain == TrainInit /\ [][TrainNext]_vars

\* the grid of the experiment script: 5 x 5, start and goal in opposite corners
GridSide == 5

\* the steps of the walk along the top row and down the last column
EndToEndActions == <<3, 3, 3, 3, 1, 1, 1, 1>>

\* run_episode on the script's grid without obstacles, the policy drawing at random
EndToEndInit ==
    /\ rows = GridSide /\ cols = GridSide
    /\ start = <<0, 0>> /\ goal = <<rows - 1, cols - 1>>
    /\ num_obstacles = 0 /\ dynamic = FALSE
    /\ agent_pos = start /\ obstacles = {} /\ epc = "idle" /\ ret = NoRet
    /\ NoAgent
    /\ fn = "run_episode" /\ policy = "random"
    /\ max_steps = Len(EndToEndActions) /\ episodes = 0
    /\ LoopEntry

EndToEndNext ==
    \/ run_episode_reset
    \/ run_episode_step
    \/ run_episode_return

SpecEndToEnd == EndToEndInit /\ [][EndToEndNext]_vars


(* ------------------------- claims: the environment --------------------- *)
\* the cell an action proposes, written out from the action table of the data model
Target(pos, a) ==
    CASE a = 0 -> <<pos[1] - 1, pos[2]>>
      [] a = 1 -> <<pos[1] + 1, pos[2]>>
      [] a = 2 -> <<pos[1], pos[2] - 1>>
      [] a = 3 -> <<pos[1], pos[2] + 1>>

InGrid(pos) == pos[1] \in 0 .. rows - 1 /\ pos[2] \in 0 .. cols - 1

\* this transition is a call of step(a) that has returned or raised
StepCalled(a) == epc = "idle" /\ ret'.op = "step" /\ ret'.action = a

\* C1: a step whose proposed cell is in the grid and not an obstacle moves the
\* agent to exactly that cell and returns it; reward -1.0, not done, event
\* moved, unless the cell is the goal: then reward 100.0, done, reached_goal.
C1_ValidMoveMovesAgent ==
    [][\A a \in 0 .. 3 :
          (StepCalled(a) /\ InGrid(Target(agent_pos, a))
             /\ Target(agent_pos, a) \notin obstacles)
          => /\ agent_pos' = Target(agent_pos, a)
             /\ ret'.next_state = Target(agent_pos, a)
             /\ ret'.err = "none"
             /\ IF Target(agent_pos, a) = goal
                THEN ret'.reward = 100 * One /\ ret'.done /\ ret'.event = "reached_goal"
                ELSE ret'.reward = -1 * One /\ ~ret'.done /\ ret'.event = "moved"]_vars

\* a step has moved the agent off the start cell past an obstacle-bearing grid
C1_Witness ==
    /\ ret.op = "step" /\ ret.event = "moved" /\ ret.reward = -1 * One
    /\ agent_pos = ret.next_state /\ agent_pos # start /\ agent_pos # goal
    /\ obstacles # {}

\* C2: a step whose proposed cell is outside the grid leaves the position and
\* the obstacle set unchanged and returns the unchanged position, reward -5.0,
\* not done, event hit_wall, also when the agent stands on the goal.
C2_WallHitLeavesStateAlone ==
    [][\A a \in 0 .. 3 :
          (StepCalled(a) /\ ~InGrid(Target(agent_pos, a)))
          => /\ agent_pos' = agent_pos
             /\ obstacles' = obstacles
             /\ ret'.next_state = agent_pos
             /\ ret'.err = "none"
             /\ ret'.reward = -5 * One /\ ~ret'.done /\ ret'.event = "hit_wall"]_vars

\* the agent, having walked to the goal, has stepped into a wall from there
C2_Witness ==
    /\ ret.op = "step" /\ ret.event = "hit_wall" /\ ret.reward = -5 * One
    /\ agent_pos = goal /\ goal # start /\ ret.next_state = goal

\* C3: a step whose proposed cell is in the grid and an obstacle leaves the
\* position and the obstacle set unchanged and returns the unchanged position,
\* reward -10.0, not done, event hit_obstacle.
C3_ObstacleHitLeavesStateAlone ==
    [][\A a \in 0 .. 3 :
          (StepCalled(a) /\ InGrid(Target(agent_pos, a))
             /\ Target(agent_pos, a) \in obstacles)
          => /\ agent_pos' = agent_pos
             /\ obstacles' = obstacles
             /\ ret'.next_state = agent_pos
             /\ ret'.err = "none"
             /\ ret'.reward = -10 * One /\ ~ret'.done /\ ret'.event = "hit_obstacle"]_vars

\* a step from a cell other than the start has run into an obstacle
C3_Witness ==
    /\ ret.op = "step" /\ ret.event = "hit_obstacle" /\ ret.reward = -10 * One
    /\ agent_pos # start /\ ret.next_state = agent_pos
    /\ \E a \in 0 .. 3 : ret.action = a /\ Target(agent_pos, a) \in obstacles

\* C4: step with an action that is not 0, 1, 2 or 3 fails with the invalid
\* action error (ValueError "Invalid action"), returns no transition, and
\* leaves the position and the obstacle set as they were.
C4_InvalidActionRaises ==
    [][\A a \in ActionInputs \ (0 .. 3) :
          StepCalled(a)
          => /\ ret'.err = "ValueError: Invalid action"
             /\ ret'.next_state = NoCell /\ ret'.event = "none"
             /\ agent_pos' = agent_pos
             /\ obstacles' = obstacles]_vars

\* an invalid action was rejected in the middle of an episode
C4_Witness ==
    /\ ret.op = "step" /\ ret.action = 4 /\ ret.err # "none"
    /\ agent_pos # start /\ obstacles # {}

\* the cells other than start and goal
UsableCells == Cells \ {start, goal}

\* C5: in a dynamic environment with num_obstacles smaller than the number of
\* cells other than start and goal, when reset has returned the obstacle set
\* holds neither start nor goal, only cells of the grid, and exactly
\* num_obstacles cells.
C5_DynamicResetObstacles ==
    (dynamic /\ num_obstacles < Cardinality(UsableCells) /\ ret.op = "reset")
    => /\ start \notin obstacles
       /\ goal \notin obstacles
       /\ \A o \in obstacles : InGrid(o)
       /\ Cardinality(obstacles) = num_obstacles

\* a dynamic reset has returned with two obstacles placed around distinct start and goal
C5_Witness ==
    /\ dynamic /\ ret.op = "reset" /\ start # goal
    /\ num_obstacles = 2 /\ num_obstacles < Cardinality(UsableCells)
    /\ Cardinality(obstacles) = 2

\* C6: reset puts the agent on the start cell and returns the start cell; a
\* static environment's obstacle set is the same after reset as before, and
\* the obstacle set changes during a reset only in a dynamic environment.
C6_ResetToStart ==
    [][/\ ret'.op = "reset" => (agent_pos' = start /\ ret'.next_state = start)
       /\ (ret'.op \in {"reset", "reset_running"} /\ ~dynamic) => obstacles' = obstacles
       /\ (ret'.op \in {"reset", "reset_running"} /\ obstacles' # obstacles) => dynamic]_vars

\* a static environment with obstacles was reset
C6_Witness ==
    /\ ~dynamic /\ ret.op = "reset" /\ obstacles # {} /\ agent_pos = start
    /\ ret.next_state = start /\ start # goal


(* ---------------------------- claims: the agent ------------------------ *)
\* what the table holds for a pair, 0 for a pair it does not hold
Stored(tbl, state, action) ==
    IF <<state, action>> \in DOMAIN tbl THEN tbl[<<state, action>>] ELSE 0

\* C7: get_q returns 0.0 for a pair that was never the argument of an update
\* and the stored estimate otherwise, and leaves the table's keys and values
\* as they were; the table holds exactly the updated pairs, so no read (by
\* get_q, best_action or choose_action) inserts one.
C7_GetQReadsWithoutInserting ==
    [][/\ aret'.op = "get_q"
          => /\ aret'.value = IF <<aret'.state, aret'.action>> \in updated
                              THEN q[<<aret'.state, aret'.action>>] ELSE 0
             /\ q' = q
       /\ aret'.op \in {"get_q", "best_action", "choose_action"} => q' = q
       /\ DOMAIN q' = updated']_vars

\* an unseen pair was read as 0 from a table that holds another action of the same state
C7_Witness ==
    /\ aret.op = "get_q" /\ aret.value = 0
    /\ <<aret.state, aret.action>> \notin DOMAIN q
    /\ \E a \in ActionSet : <<aret.state, a>> \in DOMAIN q /\ q[<<aret.state, a>>] # 0

\* the greatest stored value of a state over the agent's actions
MaxStored(state) ==
    CHOOSE m \in {Stored(q, state, a) : a \in ActionSet} :
        \A a \in ActionSet : Stored(q, state, a) <= m

\* position of an action in the agent's action list
IndexOf(a) == CHOOSE i \in 1 .. Len(actions) : actions[i] = a

IsAscending(list) == \A i \in 1 .. Len(list) - 1 : list[i] < list[i + 1]

C9_ZeroEpsilonIsGreedy ==
    (aret.op = "choose_action" /\ epsilon = 0)
    => aret.value = best_action(q, aret.state).a

\* the first choose_action after epsilon was forced from non-zero to zero ran
\* on a trained table and returned an action other than the first listed
C9_Witness ==
    /\ aret.op = "choose_action" /\ epsilon = 0 /\ aret.eps_just_zeroed
    /\ aret.value # actions[1]
    /\ updated # {}

\* C10 as stated: with alpha = 1 and gamma = 0, after update(s, a, r, s') the
\* estimate of (s, a) is exactly r.
C10_UpdateStoresReward ==
    (aret.op = "update" /\ alpha = One /\ gamma = 0)
    => Stored(q, aret.state, aret.action) = aret.value

\* C10 amended: with alpha = 1 and gamma = 0, after update(s, a, r, s') the
\* estimate of (s, a) is exactly r whenever r minus the estimate before the
\* call (0.0 for an unseen pair) is a representable number.
C10_UpdateStoresRewardWhenExact ==
    (aret.op = "update" /\ alpha = One /\ gamma = 0
       /\ Representable(aret.value - aret.old))
    => Stored(q, aret.state, aret.action) = aret.value

\* a blocked-move update (s' = s) replaced an earlier, different estimate by r
C10_Witness ==
    /\ aret.op = "update" /\ alpha = One /\ gamma = 0
    /\ aret.next_state = aret.state
    /\ aret.old # 0 /\ aret.old # aret.value
    /\ Representable(aret.value - aret.old)
    /\ Stored(q, aret.state, aret.action) = aret.value


(* --------------------------- claims: the episodes ---------------------- *)
\* the rewards of a list of step calls, added up in the order of the calls
RECURSIVE RewardSum(_)
RewardSum(h) ==
    IF h = <<>> THEN 0
    ELSE FAdd(RewardSum(SubSeq(h, 1, Len(h) - 1)), h[Len(h)].reward)

\* the record run_episode returns agrees with the step calls it made
RecordAgrees ==
    lret.op = "run_episode" =>
        /\ lret.err = "none"
        /\ lret.steps = Len(hist)
        /\ 0 <= lret.steps /\ lret.steps <= max_steps
        /\ lret.total_reward = RewardSum(hist)
        /\ lret.success <=> (\E i \in 1 .. Len(hist) : hist[i].done)
        /\ \A i \in 1 .. Len(hist) - 1 : ~hist[i].done

\* C12: run_episode always terminates: once entered it returns, after at most
\* max_steps calls of step and none after the first done; the record it returns
\* has steps equal to the number of step calls, between 0 and max_steps,
\* total_reward equal to the sum of their rewards, and success exactly when a
\* step returned done.
C12_RunEpisodeTerminates ==
    /\ [](Len(hist) <= max_steps /\ RecordAgrees)
    /\ (fn = "run_episode" /\ lpc = "reset") ~> (lret.op = "run_episode")

\* the actions of a list of step calls
ActionsOf(h) == [i \in 1 .. Len(h) |-> h[i].action]

\* C13: on the 5 x 5 grid with start (0,0), goal (4,4) and no obstacle, the
\* actions 3,3,3,3,1,1,1,1 applied after reset give reward -1.0 and done false
\* for each of the first seven steps, reward 100.0 and done true for the eighth,
\* and run_episode returns steps 8, total_reward 93.0 and success.
C13_EndToEndWalk ==
    ActionsOf(hist) = SubSeq(EndToEndActions, 1, Len(hist)) =>
        /\ \A i \in 1 .. Len(hist) :
              IF i < Len(EndToEndActions)
              THEN hist[i].reward = F(-1) /\ ~hist[i].done
              ELSE hist[i].reward = F(100) /\ hist[i].done
        /\ Len(hist) < Len(EndToEndActions) => total_reward = F(-1) * Len(hist)
        /\ (Len(hist) = Len(EndToEndActions) /\ lret.op = "run_episode") =>
              /\ lret.steps = 8
              /\ lret.total_reward = F(93)
              /\ lret.success

C13_Witness ==
    /\ rows = 5 /\ cols = 5 /\ goal = <<4, 4>> /\ obstacles = {}
    /\ ActionsOf(hist) = EndToEndActions
    /\ lret.op = "run_episode"
    /\ agent_pos = <<4, 4>>

(* ----------------------- claims: training and evaluation --------------- *)
\* a is the action of greatest stored value for the state, the first listed of them
IsFirstBest(a, state) ==
    /\ a \in ActionSet
    /\ Stored(q, state, a) = MaxStored(state)
    /\ \A b \in ActionSet : Stored(q, state, b) = MaxStored(state) => IndexOf(a) <= IndexOf(b)

\* C11: evaluate_agent never changes the value table: from its call to its
\* return the table keeps its keys and values and update is never called, and
\* every action it passes to step is the one best_action returns for the
\* current state.
C11_EvaluationLeavesTable ==
    [][fn' = "evaluate" =>
          /\ q' = q
          /\ nupdates' = nupdates /\ updated' = updated
          /\ (fn = "evaluate" /\ lpc = "step" /\ ret'.op = "step") =>
                /\ cur_state = agent_pos
                /\ ret'.action = cur_action
                /\ IsFirstBest(ret'.action, cur_state)]_vars

C11_Witness ==
    /\ fn = "evaluate" /\ lret.op = "evaluate" /\ lret.err = "none"
    /\ q # EmptyTable
    /\ Len(results) >= 1 /\ results[1].calls >= 1
    /\ hist[1].action # actions[1]

\* C14: summarize called with no record fails with EmptyInput, and so does
\* evaluate_agent called with episodes = 0.
C14_EmptyInputRaised ==
    (lret.op = "evaluate" /\ results = <<>>) => lret.err = "EmptyInput"

\* C16: in train_q_learning every step call is followed by exactly one update
\* call, made before the local state is advanced and before the next action is
\* chosen, with the state the action was chosen in, the action, the reward and
\* the next state; an episode ends at the first done or after max_steps steps;
\* the table is never cleared; and for every episodes >= 0 and max_steps >= 0
\* the function returns a list with one entry per episode, each the number of
\* step calls of its episode.
C16_TrainingLoop ==
    /\ [][(fn = "train" /\ fn' = "train") =>
            /\ (lpc = "step" /\ ret'.op = "step") => (lpc' = "update" /\ cur_state' = cur_state)
            /\ lpc = "update" =>
                  /\ aret.op = "choose_action"
                  /\ aret'.op = "update" /\ nupdates' = nupdates + 1
                  /\ aret'.state = aret.state /\ aret'.action = aret.value
                  /\ aret'.action = ret.action
                  /\ aret'.value = ret.reward /\ aret'.next_state = ret.next_state
                  /\ cur_state' = ret.next_state
            /\ lpc # "update" => nupdates' = nupdates
            /\ lpc' = "step" =>
                  /\ Len(hist) < max_steps
                  /\ \A i \in 1 .. Len(hist) : ~hist[i].done
            /\ DOMAIN q \subseteq DOMAIN q']_vars
    /\ [](fn = "train" /\ lret.op = "train" =>
            /\ lret.err = "none"
            /\ Len(results) = episodes
            /\ \A i \in 1 .. Len(results) : results[i].steps = results[i].calls)

(* ------------------- claims: configuration, policy, layout -------------- *)
\* a configuration construction is specified to accept
ValidConfiguration ==
    /\ rows > 0 /\ cols > 0
    /\ InGrid(start) /\ InGrid(goal)
    /\ start # goal
    /\ num_obstacles < Cardinality(UsableCells)

\* C15: construction fails with InvalidConfiguration on non-positive rows or
\* cols, a start or goal outside the grid, start equal to goal, or
\* num_obstacles at least the number of usable cells, so no environment that
\* reset or step is called on is misconfigured.
C15_MisconfiguredNeverUsed ==
    ret.op \in {"reset", "reset_running", "step"} => ValidConfiguration

\* the cell action a leads to from the agent's cell is in the grid and free
FreeMove(a) == InGrid(Target(agent_pos, a)) /\ Target(agent_pos, a) \notin obstacles

\* the actions that bring the agent closer to the goal, in the order up, down,
\* left, right; all four on the goal cell
Preferred ==
    IF agent_pos = goal THEN <<0, 1, 2, 3>>
    ELSE (IF goal[1] < agent_pos[1] THEN <<0>> ELSE <<>>)
         \o (IF goal[1] > agent_pos[1] THEN <<1>> ELSE <<>>)
         \o (IF goal[2] < agent_pos[2] THEN <<2>> ELSE <<>>)
         \o (IF goal[2] > agent_pos[2] THEN <<3>> ELSE <<>>)

C19_AgentOnFreeCell ==
    InGrid(agent_pos) /\ agent_pos \notin obstacles

C19_Witness ==
    /\ ret.op = "step" /\ ~ret.done
    /\ agent_pos = goal /\ goal # start
    /\ obstacles # {} /\ dynamic

\* C20: under fair sampling the loop of _generate_obstacles terminates whenever
\* num_obstacles is at most the number of cells other than start and goal;
\* when num_obstacles exceeds that number the loop never terminates, so the
\* reset that entered it never returns.
C20_GenerationTerminates ==
    /\ (epc # "idle" /\ num_obstacles <= Cardinality(UsableCells)) ~> (epc = "idle")
    /\ [][(epc # "idle" /\ num_obstacles > Cardinality(UsableCells)) => epc' # "idle"]_vars
    /\ [](num_obstacles > Cardinality(UsableCells) => ~(dynamic /\ ret.op = "reset"))

C20_Witness ==
    /\ epc = "idle" /\ dynamic /\ ret.op = "reset"
    /\ num_obstacles = Cardinality(UsableCells)
    /\ obstacles = UsableCells /\ Cardinality(obstacles) = 2

(* ------------------------- claims: the update frame -------------------- *)
\* C18: update(s, a, r, s') computes old + alpha * (r + gamma * max - old) from
\* the table as it was before the call, max being the greatest estimate of s'
\* over the agent's actions, also when s' = s; it changes the entry (s, a) and
\* no other, and creates no entry for s'.
C18_UpdateWritesOneEntry ==
    [][(aret'.op = "update" /\ nupdates' = nupdates + 1) =>
          LET key == <<aret'.state, aret'.action>>
              old == Stored(q, aret'.state, aret'.action)
              next_best == MaxStored(aret'.next_state)
              target == FAdd(aret'.value, FMul(gamma, next_best))
          IN  /\ DOMAIN q' = DOMAIN q \cup {key}
              /\ q'[key] = FAdd(old, FMul(alpha, FSub(target, old)))
              /\ \A k \in DOMAIN q \ {key} : q'[k] = q[k]]_vars

C18_Witness ==
    /\ aret.op = "update" /\ aret.next_state = aret.state
    /\ aret.old # 0 /\ gamma # 0
    /\ q[<<aret.state, aret.action>>] # aret.old
    /\ Cardinality(DOMAIN q) = 1

=============================================================================
